---- MODULE Spec2Model ----
(***************************************************************************)
(* Model of the performance-rating distribution engine                     *)
(* (src/src/reports/distribution_calculator.py) over the entity store of   *)
(* src/src/models: associates, performance ratings, distribution buckets.  *)
(* The editors of src/src/ui that commit to the store appear where a       *)
(* computation is followed beside concurrent commits.                      *)
(*                                                                         *)
(* Conventions.                                                            *)
(*  - A nullable foreign key holds NoneId when it is NULL; primary keys    *)
(*    start at 1.                                                          *)
(*  - Rating descriptions and bucket names are UNIQUE columns; the model   *)
(*    names a rating or a bucket by its id wherever the code keys a dict   *)
(*    by description or name.                                              *)
(*  - A percentage (count / total) * 100 is kept as the exact fraction     *)
(*    [num |-> count * 100, den |-> total]; 0.0 is [num |-> 0, den |-> 1]. *)
(*    Comparisons with a bucket's min/max are done by cross-multiplying.   *)
(***************************************************************************)
EXTENDS Integers, Sequences, FiniteSets, TLC

\* ---------------------------------------------------------------- bounds
MaxAssociates == 3
NumRatings == 2
MaxBuckets == 2
\* buckets in the stores of the manager report's specification
MaxManagerBuckets == 1
\* commits of concurrent editors during one call
MaxCommits == 2
\* associates in the stores of the read-only functions' joint specification
MaxReadAssociates == 2
\* associates in the store before a CSV import, and data rows of the file
MaxExisting == 1
MaxRows == 2

\* NULL of a nullable integer column
NoneId == 0

RatingIds == 1 .. NumRatings
\* (min_percentage, max_percentage) pairs a bucket may hold; every pair
\* satisfies the table's CHECK constraints 0 <= min <= max <= 100
BucketRanges == {<<0, 50>>, <<50, 100>>}
SortOrders == {0, 1}

\* ---------------------------------------------------------------- state
VARIABLES
    associates,   \* table associates: id -> row
    ratings,      \* table performance_ratings: id -> row
    buckets,      \* table distribution_buckets: id -> row
    cd_pc,        \* calculate_comprehensive_distribution: "idle" | "buckets" | "done"
    cd_included,  \* its local included_associates (loaded rows)
    cd_partial,   \* its locals computed before calculate_bucket_distributions
    dist,         \* the DistributionResult it returned
    hl_pc,        \* calculate_hierarchy_level: "idle" | "loop" | "done"
    hl_associate, \* its argument (the id of the associate)
    hl_current,   \* its local current (a loaded row)
    hl_level,     \* its local level; the value returned once hl_pc = "done"
    hl_seen,      \* its local seen_ids
    hl_path,      \* history: the ids `current` has been bound to, in order
    md_pc,        \* calculate_manager_distributions: "idle" | "done"
    report,       \* the ManagerDistributionReport it returned
    val_pc,       \* validate_bucket_configuration: "idle" | "done"
    validation,   \* the dict of errors and warnings it returned
    snapshots,    \* history: for each state the store has been in since a
                  \* first concurrent commit, the results
                  \* calculate_comprehensive_distribution has over that state
    rp_pc,        \* calculate_rating_distribution_percentages: "idle" | "done"
    rating_distribution, \* the dict it returned
    imp_pc,       \* import_associates_from_csv: "idle" | "done"
    import_call,  \* history: its arguments and the associates table before it
    import_result \* the ImportResult it returned

cdVars == <<cd_pc, cd_included, cd_partial, dist>>
hlVars == <<hl_pc, hl_associate, hl_current, hl_level, hl_seen, hl_path>>
mdVars == <<md_pc, report>>
valVars == <<val_pc, validation>>
rpVars == <<rp_pc, rating_distribution>>
impVars == <<imp_pc, import_call, import_result>>
storeVars == <<associates, ratings, buckets>>
vars == <<associates, ratings, buckets, cd_pc, cd_included, cd_partial, dist,
          hl_pc, hl_associate, hl_current, hl_level, hl_seen, hl_path,
          md_pc, report, val_pc, validation, snapshots,
          rp_pc, rating_distribution, imp_pc, import_call, import_result>>

\* ---------------------------------------------------------------- rows
RatingRows(bucketIds) ==
    [excluded_from_distribution : BOOLEAN,
     distribution_bucket_id : bucketIds \cup {NoneId}]

BucketRows(sorts) ==
    {[min_percentage |-> r[1], max_percentage |-> r[2], sort_order |-> s] :
        r \in BucketRanges, s \in sorts}

\* ---------------------------------------------------------------- percentages
ZeroPct == [num |-> 0, den |-> 1]
\* (count / total) * 100
Pct(count, total) == [num |-> count * 100, den |-> total]
PctLess(p, x) == p.num < x * p.den
PctGreater(p, x) == p.num > x * p.den
PctEquals(p, x) == p.num = x * p.den

\* ---------------------------------------------------------------- queries
\* The performance_rating relationship of a loaded associate
NoRating ==
    [id |-> NoneId, description |-> NoneId,
     excluded_from_distribution |-> FALSE, distribution_bucket_id |-> NoneId]

LoadRating(rid) ==
    IF rid = NoneId THEN NoRating
    ELSE [id |-> rid, description |-> rid,
          excluded_from_distribution |-> ratings[rid].excluded_from_distribution,
          distribution_bucket_id |-> ratings[rid].distribution_bucket_id]

\* select(Associate).options(joinedload(Associate.performance_rating))
LoadAssociate(i) ==
    [id |-> i,
     manager_id |-> associates[i].manager_id,
     performance_rating_id |-> associates[i].performance_rating_id,
     is_people_manager |-> associates[i].is_people_manager,
     performance_rating |-> LoadRating(associates[i].performance_rating_id)]

AllAssociates == [i \in DOMAIN associates |-> LoadAssociate(i)]

LoadBucket(b) ==
    [id |-> b, name |-> b,
     min_percentage |-> buckets[b].min_percentage,
     max_percentage |-> buckets[b].max_percentage,
     sort_order |-> buckets[b].sort_order]

\* Mutant of BucketsBySortOrder: the query has no ORDER BY
BucketsInAnyOrder ==
    {s \in [1 .. Cardinality(DOMAIN buckets) -> DOMAIN buckets] :
        \A i, j \in DOMAIN s : i # j => s[i] # s[j]}

\* select(DistributionBucket).order_by(DistributionBucket.sort_order): every
\* order of the rows the ORDER BY allows (rows with equal sort_order come in
\* an order the database chooses)
BucketsBySortOrder ==
    {s \in [1 .. Cardinality(DOMAIN buckets) -> DOMAIN buckets] :
        /\ \A i, j \in DOMAIN s : i # j => s[i] # s[j]
        /\ \A i, j \in DOMAIN s :
              i < j => buckets[s[i]].sort_order <= buckets[s[j]].sort_order}

\* ---------------------------------------------------------------- dict helpers
\* d.get(k, 0)
Get(d, k) == IF k \in DOMAIN d THEN d[k] ELSE 0

\* sum(f[k] for k in keys)
RECURSIVE SumValues(_, _)
SumValues(f, keys) ==
    IF keys = {} THEN 0
    ELSE LET k == CHOOSE x \in keys : TRUE
         IN f[k] + SumValues(f, keys \ {k})

RatingDesc(assoc) == assoc.performance_rating.description

\* Mutant of CountByRating: d[rating_desc] = 1, the count does not grow
CountByRatingPresence(seq) == [k \in {RatingDesc(seq[i]) : i \in DOMAIN seq} |-> 1]

\* d = {}; for a in seq: d[rating_desc] = d.get(rating_desc, 0) + 1
CountByRating(seq) ==
    [k \in {RatingDesc(seq[i]) : i \in DOMAIN seq} |->
        Cardinality({i \in DOMAIN seq : RatingDesc(seq[i]) = k})]

\* ---------------------------------------------------------------- categorization
\* Mutants of Category: the exclusion flag is not looked at; the root test
\* is made for unrated persons only
CategoryIgnoringExclusion(assoc) ==
    IF assoc.manager_id = NoneId THEN "ROOT"
    ELSE IF assoc.performance_rating_id = NoneId THEN "UNRATED"
    ELSE "INCLUDED"

CategoryRootOnlyIfUnrated(assoc) ==
    IF assoc.performance_rating_id = NoneId
    THEN (IF assoc.manager_id = NoneId THEN "ROOT" ELSE "UNRATED")
    ELSE IF assoc.performance_rating.excluded_from_distribution THEN "EXCLUDED"
    ELSE "INCLUDED"

\* The if / elif chain of calculate_comprehensive_distribution
Category(assoc) ==
    IF assoc.manager_id = NoneId THEN "ROOT"
    ELSE IF assoc.performance_rating_id = NoneId THEN "UNRATED"
    ELSE IF assoc.performance_rating.excluded_from_distribution THEN "EXCLUDED"
    ELSE "INCLUDED"

InCategory(all, c) == SelectSeq(all, LAMBDA a : Category(a) = c)

\* Mutant of RatingPercentages: the factor 100 is missing
RatingPercentagesUnscaled(rating_counts, total) ==
    IF total > 0
    THEN [r \in DOMAIN rating_counts |-> [num |-> rating_counts[r], den |-> total]]
    ELSE <<>>

\* rating_percentages of a rating_counts dict over `total` associates
RatingPercentages(rating_counts, total) ==
    IF total > 0
    THEN [r \in DOMAIN rating_counts |-> Pct(rating_counts[r], total)]
    ELSE <<>>

\* ---------------------------------------------------------------- buckets
\* Mutant of InBucket: a rating without bucket counts in every bucket
InBucketOrUnassigned(assoc, bucket) ==
    \/ assoc.performance_rating.distribution_bucket_id = bucket.id
    \/ assoc.performance_rating.distribution_bucket_id = NoneId

\* The inner loop's test: the associate's rating maps to this bucket
InBucket(assoc, bucket) ==
    assoc.performance_rating.distribution_bucket_id = bucket.id

\* Mutant of BucketPercentage: the division is made without the zero guard
BucketPercentageUnguarded(bucket_count, included_count) ==
    Pct(bucket_count, included_count)

\* (bucket_count / included_count * 100) if included_count > 0 else 0.0
BucketPercentage(bucket_count, included_count) ==
    IF included_count > 0 THEN Pct(bucket_count, included_count) ELSE ZeroPct

\* Mutants of the status indicators: the minimum itself counts as below;
\* within-target forgets the maximum
IsBelowMinimumOrEqual(percentage, bucket) ==
    PctLess(percentage, bucket.min_percentage)
        \/ PctEquals(percentage, bucket.min_percentage)

IsWithinTargetNotBelow(is_below_minimum, is_above_maximum) == ~is_below_minimum

\* Status indicators
IsBelowMinimum(percentage, bucket) == PctLess(percentage, bucket.min_percentage)
IsAboveMaximum(percentage, bucket) == PctGreater(percentage, bucket.max_percentage)
IsWithinTarget(is_below_minimum, is_above_maximum) ==
    ~(is_below_minimum \/ is_above_maximum)

\* One BucketDistribution of calculate_bucket_distributions
BucketDistribution(bucket, included_associates, included_count) ==
    LET members == SelectSeq(included_associates, LAMBDA a : InBucket(a, bucket))
        bucket_count == Len(members)
        percentage == BucketPercentage(bucket_count, included_count)
        is_below_minimum == IsBelowMinimum(percentage, bucket)
        is_above_maximum == IsAboveMaximum(percentage, bucket)
    IN [bucket_id |-> bucket.id,
        bucket_name |-> bucket.name,
        min_percentage |-> bucket.min_percentage,
        max_percentage |-> bucket.max_percentage,
        sort_order |-> bucket.sort_order,
        count |-> bucket_count,
        percentage |-> percentage,
        rating_breakdown |-> CountByRating(members),
        is_below_minimum |-> is_below_minimum,
        is_above_maximum |-> is_above_maximum,
        is_within_target |-> IsWithinTarget(is_below_minimum, is_above_maximum)]

\* calculate_bucket_distributions over the bucket rows in query order
BucketDistributions(order, included_associates, included_count) ==
    [i \in DOMAIN order |->
        BucketDistribution(LoadBucket(order[i]), included_associates, included_count)]

\* ---------------------------------------------------------------- calculate_comprehensive_distribution
NoResult == [status |-> "none"]

\* First query, categorization, rating counts and percentages
CategorizeAssociates ==
    /\ cd_pc = "idle"
    /\ LET all_associates == AllAssociates
           included_associates == InCategory(all_associates, "INCLUDED")
           excluded_associates == InCategory(all_associates, "EXCLUDED")
           included_count == Len(included_associates)
           rating_counts == CountByRating(included_associates)
       IN /\ cd_included' = included_associates
          /\ cd_partial' =
                [total_associates |-> Len(all_associates),
                 top_level_manager_count |-> Len(InCategory(all_associates, "ROOT")),
                 excluded_rating_count |-> Len(excluded_associates),
                 included_in_distribution_count |-> included_count,
                 unrated_count |-> Len(InCategory(all_associates, "UNRATED")),
                 rating_counts |-> rating_counts,
                 rating_percentages |-> RatingPercentages(rating_counts, included_count),
                 excluded_rating_counts |-> CountByRating(excluded_associates)]
    /\ cd_pc' = "buckets"
    /\ UNCHANGED <<storeVars, dist, hlVars, mdVars, valVars, snapshots, rpVars, impVars>>

\* calculate_bucket_distributions (second query) and the return
CalculateBucketDistributions ==
    /\ cd_pc = "buckets"
    /\ \E order \in BucketsBySortOrder :
          dist' = [status |-> "done",
                   total_associates |-> cd_partial.total_associates,
                   top_level_manager_count |-> cd_partial.top_level_manager_count,
                   excluded_rating_count |-> cd_partial.excluded_rating_count,
                   included_in_distribution_count |->
                       cd_partial.included_in_distribution_count,
                   unrated_count |-> cd_partial.unrated_count,
                   rating_counts |-> cd_partial.rating_counts,
                   rating_percentages |-> cd_partial.rating_percentages,
                   excluded_rating_counts |-> cd_partial.excluded_rating_counts,
                   bucket_distributions |->
                       BucketDistributions(order, cd_included,
                           cd_partial.included_in_distribution_count)]
    /\ cd_pc' = "done"
    /\ UNCHANGED <<storeVars, cd_included, cd_partial, hlVars, mdVars, valVars,
                   snapshots, rpVars, impVars>>

\* ---------------------------------------------------------------- calculate_hierarchy_level
\* The row of one associate, as a query by id returns it
AssociateRow(i) == [id |-> i, manager_id |-> associates[i].manager_id]

\* Mutant of HasManagerToFollow: the loop stops one hop early, at a person
\* whose manager has no manager
HasManagerToFollowAhead(current) ==
    /\ current.manager_id # NoneId
    /\ associates[current.manager_id].manager_id # NoneId

\* Mutant of CircularReference: the guard never fires
CircularReferenceNever(current, seen_ids) == FALSE

\* while current.manager_id is not None
HasManagerToFollow(current) == current.manager_id # NoneId

\* if current.manager_id in seen_ids
CircularReference(current, seen_ids) == current.manager_id \in seen_ids

\* The walk cannot take more hops than this; the guard of HierFollowManager
\* keeps the state space finite should the loop not end by itself.
MaxLevel == MaxAssociates + 2

\* level = 0; current = associate; seen_ids = set()
HierCall(a) ==
    /\ hl_pc = "idle"
    /\ a \in DOMAIN associates
    /\ hl_associate' = a
    /\ hl_current' = AssociateRow(a)
    /\ hl_level' = 0
    /\ hl_seen' = {}
    /\ hl_path' = <<a>>
    /\ hl_pc' = "loop"
    /\ UNCHANGED <<storeVars, cdVars, mdVars, valVars, snapshots, rpVars, impVars>>

\* One iteration of the loop that does not break: add current.id to
\* seen_ids, load the manager by id, level += 1
HierFollowManager ==
    /\ hl_pc = "loop"
    /\ HasManagerToFollow(hl_current)
    /\ ~CircularReference(hl_current, hl_seen)
    /\ hl_level < MaxLevel
    /\ hl_seen' = hl_seen \cup {hl_current.id}
    /\ hl_current' = AssociateRow(hl_current.manager_id)
    /\ hl_level' = hl_level + 1
    /\ hl_path' = Append(hl_path, hl_current.manager_id)
    /\ UNCHANGED <<storeVars, cdVars, mdVars, valVars, snapshots, rpVars, impVars,
                   hl_pc, hl_associate>>

\* Mutant of HierBreak: on a circular reference the walk repairs the store,
\* clearing the manager reference that closes the cycle
HierBreakRepairing ==
    /\ hl_pc = "loop"
    /\ HasManagerToFollow(hl_current)
    /\ CircularReference(hl_current, hl_seen)
    /\ hl_pc' = "done"
    /\ associates' = [associates EXCEPT ![hl_current.id].manager_id = NoneId]
    /\ UNCHANGED <<ratings, buckets, cdVars, mdVars, valVars, snapshots, rpVars,
                   impVars, hl_associate, hl_current, hl_level, hl_seen, hl_path>>

\* The break on a circular reference, then return level
HierBreak ==
    /\ hl_pc = "loop"
    /\ HasManagerToFollow(hl_current)
    /\ CircularReference(hl_current, hl_seen)
    /\ hl_pc' = "done"
    /\ UNCHANGED <<storeVars, cdVars, mdVars, valVars, snapshots, rpVars, impVars,
                   hl_associate,
                   hl_current, hl_level, hl_seen, hl_path>>

\* The loop condition fails (current has no manager): return level
HierReturn ==
    /\ hl_pc = "loop"
    /\ ~HasManagerToFollow(hl_current)
    /\ hl_pc' = "done"
    /\ UNCHANGED <<storeVars, cdVars, mdVars, valVars, snapshots, rpVars, impVars,
                   hl_associate,
                   hl_current, hl_level, hl_seen, hl_path>>

\* ---------------------------------------------------------------- calculate_manager_distributions
\* calculate_hierarchy_level as one call: the loop of the walk above
RECURSIVE HierarchyWalk(_, _, _)
HierarchyWalk(current, seen_ids, level) ==
    IF ~HasManagerToFollow(current) THEN level
    ELSE IF CircularReference(current, seen_ids) THEN level
    ELSE HierarchyWalk(AssociateRow(current.manager_id),
                       seen_ids \cup {current.id}, level + 1)

HierarchyLevel(a) == HierarchyWalk(AssociateRow(a), {}, 0)

\* select(Associate).where(Associate.is_people_manager.is_(True)), in
\* primary-key order
RECURSIVE Ascending(_)
Ascending(ids) ==
    IF ids = {} THEN <<>>
    ELSE LET m == CHOOSE x \in ids : \A y \in ids : x <= y
         IN <<m>> \o Ascending(ids \ {m})

\* Mutant of Managers: the persons someone reports to, flagged or not
ManagersByDirectReports ==
    Ascending({i \in DOMAIN associates :
                  \E j \in DOMAIN associates : associates[j].manager_id = i})

Managers == Ascending({i \in DOMAIN associates : associates[i].is_people_manager})

\* Mutant of DirectReports: every associate that has a manager, whoever the
\* manager is
DirectReportsOfAnyManager(manager) ==
    SelectSeq(AllAssociates, LAMBDA a : a.manager_id # NoneId)

\* manager.direct_reports: the associates whose manager_id is the manager's id
DirectReports(manager) ==
    SelectSeq(AllAssociates, LAMBDA a : a.manager_id = manager)

\* Mutant of ReportCategory: the exclusion flag is not looked at
ReportCategoryIgnoringExclusion(report_) ==
    IF report_.performance_rating_id = NoneId THEN "UNRATED" ELSE "INCLUDED"

\* The if / elif chain over a manager's direct reports
ReportCategory(report_) ==
    IF report_.performance_rating_id = NoneId THEN "UNRATED"
    ELSE IF report_.performance_rating.excluded_from_distribution THEN "EXCLUDED"
    ELSE "INCLUDED"

ReportsInCategory(reports, c) == SelectSeq(reports, LAMBDA a : ReportCategory(a) = c)

\* bucket_id and bucket_id in bucket_map
CountsInBucketMap(assoc) ==
    /\ assoc.performance_rating.distribution_bucket_id # NoneId
    /\ assoc.performance_rating.distribution_bucket_id \in DOMAIN buckets

BucketName(assoc) == assoc.performance_rating.distribution_bucket_id

\* d = {}; for a in seq: d[bucket_name] = d.get(bucket_name, 0) + 1
CountByBucket(seq) ==
    [k \in {BucketName(seq[i]) : i \in DOMAIN seq} |->
        Cardinality({i \in DOMAIN seq : BucketName(seq[i]) = k})]

\* Mutant of OutOfRange: a bucket without member is flagged too
OutOfRangeAnyCount(count, percentage, bucket) ==
    \/ PctLess(percentage, bucket.min_percentage)
    \/ PctGreater(percentage, bucket.max_percentage)

\* The out-of-range test of one bucket for one manager
OutOfRange(count, percentage, bucket) ==
    /\ PctLess(percentage, bucket.min_percentage)
          \/ PctGreater(percentage, bucket.max_percentage)
    /\ count > 0

\* The ManagerDistributionDetail of one manager; order is the bucket query's
\* result
ManagerDetail(manager, order) ==
    LET reports == DirectReports(manager)
        unrated_reports == ReportsInCategory(reports, "UNRATED")
        excluded_reports == ReportsInCategory(reports, "EXCLUDED")
        included_reports == ReportsInCategory(reports, "INCLUDED")
        \* rated_reports is appended to in the same branch as included_reports
        rated_reports == included_reports
        n == Len(included_reports)
        rating_counts == CountByRating(included_reports)
        bucket_counts ==
            CountByBucket(SelectSeq(included_reports, CountsInBucketMap))
        bucket_percentages ==
            IF n > 0
            THEN [b \in DOMAIN buckets |-> Pct(Get(bucket_counts, b), n)]
            ELSE <<>>
        flagged(i) ==
            OutOfRange(Get(bucket_counts, order[i]),
                       bucket_percentages[order[i]], LoadBucket(order[i]))
        out_positions == IF n > 0 THEN {i \in DOMAIN order : flagged(i)} ELSE {}
    IN [manager_id |-> manager,
        hierarchy_level |-> HierarchyLevel(manager),
        total_direct_reports |-> Len(reports),
        rated_reports |-> Len(rated_reports),
        unrated_reports |-> Len(unrated_reports),
        excluded_reports |-> Len(excluded_reports),
        included_reports |-> n,
        rating_counts |-> rating_counts,
        rating_percentages |-> RatingPercentages(rating_counts, n),
        bucket_counts |-> bucket_counts,
        bucket_percentages |-> bucket_percentages,
        buckets_out_of_range |->
            [k \in 1 .. Cardinality(out_positions) |->
                order[Ascending(out_positions)[k]]]]

\* Mutant of AggregateCounts: agg[key] = count, the last manager's count
\* overwrites the sum
AggregateCountsOverwriting(details, field) ==
    [k \in UNION {DOMAIN details[i][field] : i \in DOMAIN details} |->
        LET having == {i \in DOMAIN details : k \in DOMAIN details[i][field]}
            last == CHOOSE i \in having : \A j \in having : j <= i
        IN details[last][field][k]]

\* agg[key] = agg.get(key, 0) + count over the dicts details[i][field]
AggregateCounts(details, field) ==
    [k \in UNION {DOMAIN details[i][field] : i \in DOMAIN details} |->
        SumValues([i \in DOMAIN details |-> Get(details[i][field], k)],
                  DOMAIN details)]

\* The summary of one hierarchy level over the details of its managers
HierarchySummary(level, details) ==
    LET total_included ==
            SumValues([i \in DOMAIN details |-> details[i].included_reports],
                      DOMAIN details)
        agg_rating_counts == AggregateCounts(details, "rating_counts")
        agg_bucket_counts == AggregateCounts(details, "bucket_counts")
    IN [hierarchy_level |-> level,
        manager_count |-> Len(details),
        total_included_reports |-> total_included,
        rating_counts |-> agg_rating_counts,
        rating_percentages |-> RatingPercentages(agg_rating_counts, total_included),
        bucket_counts |-> agg_bucket_counts,
        bucket_percentages |-> RatingPercentages(agg_bucket_counts, total_included)]

\* hierarchy_data and hierarchy_summaries: one summary per level that has a
\* manager
HierarchySummaries(manager_details) ==
    [level \in {manager_details[i].hierarchy_level : i \in DOMAIN manager_details} |->
        HierarchySummary(level,
            SelectSeq(manager_details, LAMBDA d : d.hierarchy_level = level))]

CalculateManagerDistributions ==
    /\ md_pc = "idle"
    /\ \E order \in BucketsBySortOrder :
          LET managers == Managers
              manager_details ==
                  [i \in DOMAIN managers |-> ManagerDetail(managers[i], order)]
          IN report' =
                [status |-> "done",
                 total_managers |-> Len(manager_details),
                 total_associates_under_managers |->
                     SumValues([i \in DOMAIN manager_details |->
                                   manager_details[i].total_direct_reports],
                               DOMAIN manager_details),
                 manager_details |-> manager_details,
                 hierarchy_summaries |-> HierarchySummaries(manager_details)]
    /\ md_pc' = "done"
    /\ UNCHANGED <<storeVars, cdVars, hlVars, valVars, snapshots, rpVars, impVars>>

\* ---------------------------------------------------------------- validate_bucket_configuration
\* Mutant of UnassignedRatingIds: the exclusion flag is not looked at
UnassignedRatingIdsWithExcluded ==
    {r \in DOMAIN ratings : ratings[r].distribution_bucket_id = NoneId}

\* where distribution_bucket_id IS NULL and excluded_from_distribution IS
\* FALSE: the ids of the rows get_unassigned_ratings selects
UnassignedRatingIds ==
    {r \in DOMAIN ratings :
        /\ ratings[r].distribution_bucket_id = NoneId
        /\ ~ratings[r].excluded_from_distribution}

\* Every order in which a query without ORDER BY may return the rows `ids`
Orderings(ids) ==
    {s \in [1 .. Cardinality(ids) -> ids] :
        \A i, j \in DOMAIN s : i # j => s[i] # s[j]}

\* get_unassigned_ratings: the selected rows, in an order the database chooses
GetUnassignedRatings ==
    {[i \in DOMAIN s |-> LoadRating(s[i])] : s \in Orderings(UnassignedRatingIds)}

\* The coverage warning: one message that joins the descriptions
CoverageWarnings(unassigned) ==
    IF unassigned # <<>>
    THEN <<[kind |-> "unassigned",
            rating_names |-> [i \in DOMAIN unassigned |-> unassigned[i].description]]>>
    ELSE <<>>

\* sum(b.min_percentage for b in buckets), sum(b.max_percentage for b in buckets)
TotalMin == SumValues([b \in DOMAIN buckets |-> LoadBucket(b).min_percentage],
                      DOMAIN buckets)
TotalMax == SumValues([b \in DOMAIN buckets |-> LoadBucket(b).max_percentage],
                      DOMAIN buckets)

\* Mutant of MinimumSumExceeded: a tolerance of 10 points
MinimumSumExceededBy10(total_min) == total_min > 110

\* if total_min > 100
MinimumSumExceeded(total_min) == total_min > 100

\* Mutant of MaximumSumShort: only a sum below 50 is short
MaximumSumShortOfHalf(total_max) == total_max < 50

\* if total_max < 100
MaximumSumShort(total_max) == total_max < 100

\* Mutant of NoSlack: the sum of the maximums is not looked at
NoSlackInMinimums(total_min, total_max) == total_min = 100

\* elif total_min == 100 and total_max == 100, reached when the test
\* total_min < 100 < total_max before it fails
NoSlack(total_min, total_max) ==
    /\ ~(total_min < 100 /\ 100 < total_max)
    /\ total_min = 100 /\ total_max = 100

\* The feasibility checks, made only `if buckets:`
FeasibilityErrors ==
    IF DOMAIN buckets # {}
    THEN (IF MinimumSumExceeded(TotalMin)
          THEN <<[kind |-> "minimum_sum", total |-> TotalMin]>> ELSE <<>>)
         \o (IF MaximumSumShort(TotalMax)
             THEN <<[kind |-> "maximum_sum", total |-> TotalMax]>> ELSE <<>>)
    ELSE <<>>

RigidityWarnings ==
    IF DOMAIN buckets # {} /\ NoSlack(TotalMin, TotalMax)
    THEN <<[kind |-> "rigid", rating_names |-> <<>>]>>
    ELSE <<>>

ValidateBucketConfiguration ==
    /\ val_pc = "idle"
    /\ \E unassigned \in GetUnassignedRatings :
          validation' = [status |-> "done",
                         errors |-> FeasibilityErrors,
                         warnings |-> CoverageWarnings(unassigned) \o RigidityWarnings]
    /\ val_pc' = "done"
    /\ UNCHANGED <<storeVars, cdVars, hlVars, mdVars, snapshots, rpVars, impVars>>

\* ---------------------------------------------------------------- calculate_rating_distribution_percentages
\* select count(associates.id) where performance_rating_id is not null
GetTotalHeadcount ==
    Cardinality({i \in DOMAIN associates :
                    associates[i].performance_rating_id # NoneId})

\* select description, count(associates.id) from performance_ratings join
\* associates on the rating reference, grouped by description: one key per
\* rating that at least one associate holds
GetAssociatesByRating ==
    [r \in {associates[i].performance_rating_id : i \in DOMAIN associates}
            \ {NoneId} |->
        Cardinality({i \in DOMAIN associates :
                        associates[i].performance_rating_id = r})]

\* total = get_total_headcount(db); if total == 0: return {};
\* counts = get_associates_by_rating(db);
\* return {rating: (count / total) * 100 for rating, count in counts.items()}
CalculateRatingDistributionPercentages ==
    /\ rp_pc = "idle"
    /\ rating_distribution' =
          [status |-> "done",
           percentages |->
              LET total == GetTotalHeadcount
                  counts == GetAssociatesByRating
              IN IF total = 0 THEN <<>>
                 ELSE [r \in DOMAIN counts |-> Pct(counts[r], total)]]
    /\ rp_pc' = "done"
    /\ UNCHANGED <<storeVars, cdVars, hlVars, mdVars, valVars, snapshots, impVars>>

\* ---------------------------------------------------------------- import_associates_from_csv
\* A (first_name, last_name) pair is one name here; "" is a missing
\* first_name or last_name, and, in the manager columns, no manager
Names == {"ann", "Ann", "bob"}
EmptyName == ""

\* (first_name.lower(), last_name.lower())
Lower(name) == IF name = "Ann" THEN "ann" ELSE name

\* Table associate_levels, keyed by description; UnknownLevel is a
\* description no row of the table has
LevelIds == {1, 2}
UnknownLevel == 3

\* The data rows csv.DictReader yields, is_people_manager already compared
\* with ('true', 'yes', '1', 'y').  The rows name level 2 (the associates
\* in the store are at level 1) or an unknown level, and as manager nobody,
\* "Ann" or "bob".
RawRows ==
    [name : Names \cup {EmptyName},
     level : {2, UnknownLevel},
     manager : {EmptyName, "Ann", "bob"},
     is_people_manager : BOOLEAN]

RowSeqs(n) == UNION {[1 .. k -> RawRows] : k \in 0 .. n}

\* A file: whether its header has exactly the known columns, and its data rows
CsvFiles ==
    {[header_ok |-> TRUE, rows |-> r] : r \in RowSeqs(MaxRows)}
        \cup {[header_ok |-> FALSE, rows |-> r] : r \in RowSeqs(1)}

\* is_valid of validate_csv_file: no missing or unexpected column, and at
\* least one data row
ValidateCsvFile(file) == file.header_ok /\ Len(file.rows) > 0

\* parse_csv_file: the rows with their required fields as AssociateRow
\* (row_number starts at 2), an error for each other row
NumberedRows(file) ==
    [i \in DOMAIN file.rows |->
        [row_number |-> i + 1,
         name |-> file.rows[i].name,
         level |-> file.rows[i].level,
         manager |-> file.rows[i].manager,
         is_people_manager |-> file.rows[i].is_people_manager]]

HasRequiredFields(row) == row.name # EmptyName

RowErrors(rows, kind) == [i \in DOMAIN rows |-> [row |-> rows[i].row_number, kind |-> kind]]

ParseCsvFile(file) ==
    [rows |-> SelectSeq(NumberedRows(file), HasRequiredFields),
     errors |-> RowErrors(SelectSeq(NumberedRows(file),
                                    LAMBDA row : ~HasRequiredFields(row)),
                          "parse")]

\* associate_map = {(first_name.lower(), last_name.lower()): assoc for assoc
\* in existing_associates}: of the associates that share a key the dict
\* keeps the one the query returned last, and the query has no ORDER BY
ExistingAssociateMaps ==
    LET keys == {Lower(associates[i].name) : i \in DOMAIN associates}
    IN {m \in [keys -> DOMAIN associates] :
            \A k \in keys : Lower(associates[m[k]].name) = k}

\* ImportResult(success=False, created_count=0, ...)
NewImportResult ==
    [status |-> "done", success |-> FALSE, created_count |-> 0,
     updated_count |-> 0, skipped_count |-> 0, errors |-> <<>>, warnings |-> <<>>]

\* Associate(first_name, last_name, associate_level_id, is_people_manager);
\* manager_id and performance_rating_id take their default NULL
NewAssociate(row) ==
    [name |-> row.name,
     associate_level_id |-> row.level,
     manager_id |-> NoneId,
     performance_rating_id |-> NoneId,
     is_people_manager |-> row.is_people_manager]

\* The body of the first loop for one row.  st holds the session's view of
\* the table, associate_map (key -> id), result, and the history `assigned`.
\* A new associate gets the next id here; the code learns it at the flush,
\* and reads no id before.
ProcessRow(st, row, update_existing) ==
    LET key == Lower(row.name)
    IN IF row.level \notin LevelIds
       THEN [st EXCEPT !.result.errors =
                          Append(@, [row |-> row.row_number, kind |-> "level"])]
       ELSE IF key \in DOMAIN st.associate_map
       THEN IF update_existing
            THEN [st EXCEPT !.table[st.associate_map[key]].associate_level_id = row.level,
                            !.result.updated_count = @ + 1]
            ELSE [st EXCEPT !.result.skipped_count = @ + 1,
                            !.result.warnings =
                                Append(@, [row |-> row.row_number, kind |-> "skipped"])]
       ELSE [st EXCEPT !.table = Append(@, NewAssociate(row)),
                       !.associate_map =
                           [k \in DOMAIN @ \cup {key} |->
                               IF k = key THEN Len(st.table) + 1 ELSE @[k]],
                       !.result.created_count = @ + 1]

RECURSIVE FirstPass(_, _, _, _)
FirstPass(st, rows, i, update_existing) ==
    IF i > Len(rows) THEN st
    ELSE FirstPass(ProcessRow(st, rows[i], update_existing), rows, i + 1,
                   update_existing)

\* Mutant of AssignManager: the manager's flag is left as it is
AssignManagerKeepingFlag(table, associate_id, manager_id) ==
    [table EXCEPT ![associate_id].manager_id = manager_id]

\* associate.manager_id = manager.id; manager.is_people_manager = True
AssignManager(table, associate_id, manager_id) ==
    [table EXCEPT ![associate_id].manager_id = manager_id,
                  ![manager_id].is_people_manager = TRUE]

\* The body of the second loop for one row
AssignManagerOfRow(st, row) ==
    LET key == Lower(row.name)
        manager_key == Lower(row.manager)
    IN IF key \notin DOMAIN st.associate_map THEN st
       ELSE IF row.manager = EmptyName THEN st
       ELSE IF manager_key \notin DOMAIN st.associate_map
       THEN [st EXCEPT !.result.warnings =
                          Append(@, [row |-> row.row_number, kind |-> "manager"])]
       ELSE [st EXCEPT !.table = AssignManager(@, st.associate_map[key],
                                               st.associate_map[manager_key]),
                       !.assigned = @ \cup {<<st.associate_map[key],
                                              st.associate_map[manager_key]>>}]

RECURSIVE SecondPass(_, _, _)
SecondPass(st, rows, i) ==
    IF i > Len(rows) THEN st
    ELSE SecondPass(AssignManagerOfRow(st, rows[i]), rows, i + 1)

\* Mutant of Rollback: what the session had flushed stays in the table
RollbackKeepingFlushed(before, flushed) == flushed

\* db.rollback(): the table as it was at the last commit
Rollback(before, flushed) == before

\* except Exception: db.rollback(); result.success = False; errors.append
Failed(st) ==
    [st EXCEPT !.table = Rollback(associates, @),
               !.result.errors = Append(@, [row |-> 0, kind |-> "database"])]

\* db.commit(); result.success = True
Committed(st) == [st EXCEPT !.result.success = TRUE]

\* import_associates_from_csv(db, file_path, update_existing).  raises tells
\* whether db.flush() or db.commit() raises (the database is locked, say).
ImportAssociatesFromCsv(file, update_existing, raises) ==
    /\ imp_pc = "idle"
    /\ \E associate_map \in ExistingAssociateMaps :
          LET parsed == ParseCsvFile(file)
              start == [table |-> associates,
                        associate_map |-> associate_map,
                        result |-> [NewImportResult EXCEPT !.errors = parsed.errors],
                        assigned |-> {}]
              first == FirstPass(start, parsed.rows, 1, update_existing)
              second == SecondPass(first, parsed.rows, 1)
              end == IF ~ValidateCsvFile(file)
                     THEN [start EXCEPT !.result.errors = <<[row |-> 0, kind |-> "file"]>>]
                     ELSE IF parsed.errors # <<>> /\ parsed.rows = <<>> THEN start
                     ELSE IF raises = "flush" THEN Failed(first)
                     ELSE IF raises = "commit" THEN Failed(second)
                     ELSE Committed(second)
          IN /\ associates' = end.table
             /\ import_result' = end.result
             /\ import_call' = [status |-> "done",
                                file |-> file,
                                update_existing |-> update_existing,
                                before |-> associates,
                                rows |-> IF ValidateCsvFile(file) THEN parsed.rows
                                         ELSE <<>>,
                                associate_map |-> end.associate_map,
                                assigned |-> end.assigned]
    /\ imp_pc' = "done"
    /\ UNCHANGED <<ratings, buckets, cdVars, hlVars, mdVars, valVars, snapshots,
                   rpVars>>

\* ---------------------------------------------------------------- concurrent editors
\* calculate_comprehensive_distribution evaluated at once over the store as
\* it stands, for one order of the bucket rows
ComprehensiveResult(order) ==
    LET all_associates == AllAssociates
        included_associates == InCategory(all_associates, "INCLUDED")
        excluded_associates == InCategory(all_associates, "EXCLUDED")
        included_count == Len(included_associates)
        rating_counts == CountByRating(included_associates)
    IN [status |-> "done",
        total_associates |-> Len(all_associates),
        top_level_manager_count |-> Len(InCategory(all_associates, "ROOT")),
        excluded_rating_count |-> Len(excluded_associates),
        included_in_distribution_count |-> included_count,
        unrated_count |-> Len(InCategory(all_associates, "UNRATED")),
        rating_counts |-> rating_counts,
        rating_percentages |-> RatingPercentages(rating_counts, included_count),
        excluded_rating_counts |-> CountByRating(excluded_associates),
        bucket_distributions |->
            BucketDistributions(order, included_associates, included_count)]

ComprehensiveResults == {ComprehensiveResult(order) : order \in BucketsBySortOrder}

\* The history up to now: without a commit the store has been in one state
Recorded == IF snapshots = <<>> THEN <<ComprehensiveResults>> ELSE snapshots

\* An editor commits while a call of calculate_comprehensive_distribution
\* stands between its two queries; at most MaxCommits commits are followed
EditorMayCommit ==
    /\ cd_pc = "buckets"
    /\ Len(Recorded) <= MaxCommits

\* rating_input_screen.action_save with one pending change: the associate's
\* rating assignment is set (or cleared) and committed
SaveRatingAssignment(associate_id, rating_id) ==
    /\ EditorMayCommit
    /\ associate_id \in DOMAIN associates
    /\ associates[associate_id].performance_rating_id # rating_id
    /\ associates' = [associates EXCEPT ![associate_id].performance_rating_id = rating_id]
    /\ UNCHANGED <<ratings, buckets>>
    /\ snapshots' = Append(Recorded, ComprehensiveResults')
    /\ UNCHANGED <<cdVars, hlVars, mdVars, valVars, rpVars, impVars>>

\* associates_screen.on_associate_form_submitted for an existing associate:
\* the manager reference is set from the form (the other fields as they were)
UpdateAssociate(associate_id, manager_id) ==
    /\ EditorMayCommit
    /\ associate_id \in DOMAIN associates
    /\ associates[associate_id].manager_id # manager_id
    /\ associates' = [associates EXCEPT ![associate_id].manager_id = manager_id]
    /\ UNCHANGED <<ratings, buckets>>
    /\ snapshots' = Append(Recorded, ComprehensiveResults')
    /\ UNCHANGED <<cdVars, hlVars, mdVars, valVars, rpVars, impVars>>

\* distribution_buckets_screen.on_distribution_bucket_form_submitted for an
\* existing bucket: min and max are set from the form (sort_order as it was)
UpdateBucket(bucket_id, range) ==
    /\ EditorMayCommit
    /\ bucket_id \in DOMAIN buckets
    /\ <<buckets[bucket_id].min_percentage, buckets[bucket_id].max_percentage>> # range
    /\ buckets' = [buckets EXCEPT ![bucket_id].min_percentage = range[1],
                                  ![bucket_id].max_percentage = range[2]]
    /\ UNCHANGED <<associates, ratings>>
    /\ snapshots' = Append(Recorded, ComprehensiveResults')
    /\ UNCHANGED <<cdVars, hlVars, mdVars, valVars, rpVars, impVars>>

\* ---------------------------------------------------------------- specifications
\* Every store the bounds allow: ids are 1..n, every reference resolves.
\* managers[n] is the set manager references are drawn from, held the set of
\* rating references, flags the set of people-manager flags, exclusions the
\* set of exclusion flags, maxb the largest number of buckets, sorts the set
\* of their sort_order values.
InitStore(managers, held, flags, exclusions, maxb, sorts) ==
    \E n \in 0 .. MaxAssociates, b \in 0 .. maxb :
        /\ associates \in [1 .. n -> [manager_id : managers[n],
                                     performance_rating_id : held,
                                     is_people_manager : flags]]
        /\ ratings \in [RatingIds -> [excluded_from_distribution : exclusions,
                                     distribution_bucket_id : 1 .. b \cup {NoneId}]]
        /\ buckets \in [1 .. b -> BucketRows(sorts)]

InitCalc ==
    /\ cd_pc = "idle"
    /\ cd_included = <<>>
    /\ cd_partial = NoResult
    /\ dist = NoResult
    /\ hl_pc = "idle"
    /\ hl_associate = NoneId
    /\ hl_current = [id |-> NoneId, manager_id |-> NoneId]
    /\ hl_level = 0
    /\ hl_seen = {}
    /\ hl_path = <<>>
    /\ md_pc = "idle"
    /\ report = NoResult
    /\ val_pc = "idle"
    /\ validation = NoResult
    /\ snapshots = <<>>
    /\ rp_pc = "idle"
    /\ rating_distribution = NoResult
    /\ imp_pc = "idle"
    /\ import_call = NoResult
    /\ import_result = NoResult

AnyManager == [n \in 0 .. MaxAssociates |-> {NoneId} \cup 1 .. n]
RootOrFirst == [n \in 0 .. MaxAssociates |-> {NoneId} \cup (1 .. n \cap {1})]

\* calculate_comprehensive_distribution reads of an associate only manager_id
\* (compared with None) and the rating: the stores of this specification hold
\* no people-manager flag, and a manager reference is NULL or associate 1.
InitDist ==
    /\ InitStore(RootOrFirst, RatingIds \cup {NoneId}, {FALSE}, BOOLEAN, MaxBuckets,
                 SortOrders)
    /\ InitCalc

NextDist == CategorizeAssociates \/ CalculateBucketDistributions

SpecDist == InitDist /\ [][NextDist]_vars

\* calculate_manager_distributions reads every column the model keeps; the
\* stores of this specification hold at most MaxManagerBuckets buckets, all of
\* sort_order 0 (the column's default).
InitMgr ==
    /\ InitStore(AnyManager, RatingIds \cup {NoneId}, BOOLEAN, BOOLEAN,
                 MaxManagerBuckets, {0})
    /\ InitCalc

NextMgr == CalculateManagerDistributions

SpecMgr == InitMgr /\ [][NextMgr]_vars

\* calculate_hierarchy_level reads manager_id only: the stores of this
\* specification hold every manager graph over the associates (self
\* references and cycles included), no rating assignment and no bucket.
InitHier ==
    /\ InitStore(AnyManager, {NoneId}, {FALSE}, {FALSE}, 0, {0})
    /\ InitCalc

NextHier ==
    \/ \E a \in 1 .. MaxAssociates : HierCall(a)
    \/ HierFollowManager
    \/ HierBreak
    \/ HierReturn

SpecHier == InitHier /\ [][NextHier]_vars

\* The interpreter runs a started call on: the loop's steps are taken as long
\* as one is possible.
FairSpecHier ==
    SpecHier /\ WF_vars(HierFollowManager \/ HierBreak \/ HierReturn)

\* validate_bucket_configuration reads the ratings' flag and bucket reference
\* and the buckets' min and max: the stores of this specification hold at
\* most one associate, who has no manager, and buckets whose sort_order is 0;
\* their ranges are drawn from ValBucketRanges, every pair of which satisfies
\* the table's CHECK constraints 0 <= min <= max <= 100.
ValBucketRanges == {<<0, 40>>, <<50, 50>>, <<50, 100>>, <<60, 100>>, <<100, 100>>}

InitVal ==
    /\ \E n \in 0 .. 1, b \in 0 .. MaxBuckets :
          /\ associates \in [1 .. n -> [manager_id : {NoneId},
                                       performance_rating_id : RatingIds \cup {NoneId},
                                       is_people_manager : {FALSE}]]
          /\ ratings \in [RatingIds -> RatingRows(1 .. b)]
          /\ buckets \in [1 .. b ->
                {[min_percentage |-> r[1], max_percentage |-> r[2], sort_order |-> 0] :
                    r \in ValBucketRanges}]
    /\ InitCalc

NextVal == ValidateBucketConfiguration

SpecVal == InitVal /\ [][NextVal]_vars

\* calculate_comprehensive_distribution beside editors that commit between its
\* two queries.  The stores of this specification hold no people-manager flag
\* and no exclusion flag, at most MaxManagerBuckets buckets of sort_order 0,
\* and a manager reference is NULL or associate 1.
InitConc ==
    /\ InitStore(RootOrFirst, RatingIds \cup {NoneId}, {FALSE}, {FALSE},
                 MaxManagerBuckets, {0})
    /\ InitCalc

NextConc ==
    \/ CategorizeAssociates
    \/ CalculateBucketDistributions
    \/ \E i \in 1 .. MaxAssociates, r \in RatingIds \cup {NoneId} :
          SaveRatingAssignment(i, r)
    \/ \E i \in 1 .. MaxAssociates, m \in {NoneId, 1} : UpdateAssociate(i, m)
    \/ \E b \in 1 .. MaxManagerBuckets, range \in BucketRanges : UpdateBucket(b, range)

SpecConc == InitConc /\ [][NextConc]_vars

\* The rating percentages of the module: those of
\* calculate_comprehensive_distribution and those of
\* calculate_rating_distribution_percentages.  Neither reads a bucket here:
\* the stores of this specification hold no bucket and no people-manager
\* flag, and a manager reference is NULL or associate 1.
InitPct ==
    /\ InitStore(RootOrFirst, RatingIds \cup {NoneId}, {FALSE}, BOOLEAN, 0, {0})
    /\ InitCalc

NextPct ==
    \/ CategorizeAssociates
    \/ CalculateBucketDistributions
    \/ CalculateRatingDistributionPercentages

SpecPct == InitPct /\ [][NextPct]_vars

\* The four read-only functions, each called once, in any order and
\* interleaving.  The stores of this specification hold at most
\* MaxReadAssociates associates with every manager graph over them, and at
\* most MaxManagerBuckets buckets of sort_order 0.
InitRead ==
    /\ \E n \in 0 .. MaxReadAssociates, b \in 0 .. MaxManagerBuckets :
          /\ associates \in [1 .. n -> [manager_id : {NoneId} \cup 1 .. n,
                                       performance_rating_id : RatingIds \cup {NoneId},
                                       is_people_manager : BOOLEAN]]
          /\ ratings \in [RatingIds -> RatingRows(1 .. b)]
          /\ buckets \in [1 .. b -> BucketRows({0})]
    /\ InitCalc

NextRead ==
    \/ CategorizeAssociates
    \/ CalculateBucketDistributions
    \/ CalculateManagerDistributions
    \/ \E a \in 1 .. MaxReadAssociates : HierCall(a)
    \/ HierFollowManager
    \/ HierBreak
    \/ HierReturn
    \/ ValidateBucketConfiguration

SpecRead == InitRead /\ [][NextRead]_vars

\* import_associates_from_csv reads and writes the associates table and
\* reads the levels.  The stores of this specification hold at most
\* MaxExisting associates, each named, at level 1, without rating, with no
\* manager or (a data error the schema allows) itself as manager; the ratings
\* carry no flag and no bucket, and there is no bucket.
InitImp ==
    /\ \E n \in 0 .. MaxExisting :
          associates \in [1 .. n -> [name : Names,
                                     associate_level_id : {1},
                                     manager_id : {NoneId} \cup 1 .. n,
                                     performance_rating_id : {NoneId},
                                     is_people_manager : BOOLEAN]]
    /\ ratings = [r \in RatingIds |->
                    [excluded_from_distribution |-> FALSE,
                     distribution_bucket_id |-> NoneId]]
    /\ buckets = <<>>
    /\ InitCalc

NextImp ==
    /\ imp_pc = "idle"
    /\ \E file \in CsvFiles, update_existing \in BOOLEAN,
          raises \in {"none", "flush", "commit"} :
           ImportAssociatesFromCsv(file, update_existing, raises)

SpecImp == InitImp /\ [][NextImp]_vars

\* ---------------------------------------------------------------- vocabulary of the claims
\* The four classes of section 4.1, stated on the store
HasManager(i) == associates[i].manager_id # NoneId
HasRating(i) == associates[i].performance_rating_id # NoneId
RatingIsExcluded(i) ==
    ratings[associates[i].performance_rating_id].excluded_from_distribution
Roots == {i \in DOMAIN associates : ~HasManager(i)}
Unrated == {i \in DOMAIN associates : HasManager(i) /\ ~HasRating(i)}
Excluded ==
    {i \in DOMAIN associates : HasManager(i) /\ HasRating(i) /\ RatingIsExcluded(i)}
Included ==
    {i \in DOMAIN associates : HasManager(i) /\ HasRating(i) /\ ~RatingIsExcluded(i)}

Holding(S, r) == {i \in S : associates[i].performance_rating_id = r}
BucketOf(r) == ratings[r].distribution_bucket_id
B2N(b) == IF b THEN 1 ELSE 0

\* Sum of the fractions p[k], k in keys, as a fraction
RECURSIVE SumPct(_, _)
SumPct(p, keys) ==
    IF keys = {} THEN ZeroPct
    ELSE LET k == CHOOSE x \in keys : TRUE
             rest == SumPct(p, keys \ {k})
         IN [num |-> p[k].num * rest.den + rest.num * p[k].den,
             den |-> p[k].den * rest.den]

CdDone == cd_pc = "done"
BucketResults == {dist.bucket_distributions[i] : i \in DOMAIN dist.bucket_distributions}

\* ---------------------------------------------------------------- claims
\* C1: every person is in exactly one of ROOT, UNRATED, EXCLUDED, INCLUDED;
\* the four counts of the result are the sizes of these classes and sum to
\* total_associates, the number of persons.
C1_FourClassesPartition ==
    CdDone =>
        /\ \A i \in DOMAIN associates :
              B2N(i \in Roots) + B2N(i \in Unrated)
                  + B2N(i \in Excluded) + B2N(i \in Included) = 1
        /\ dist.top_level_manager_count = Cardinality(Roots)
        /\ dist.unrated_count = Cardinality(Unrated)
        /\ dist.excluded_rating_count = Cardinality(Excluded)
        /\ dist.included_in_distribution_count = Cardinality(Included)
        /\ dist.total_associates = Cardinality(DOMAIN associates)
        /\ dist.top_level_manager_count + dist.unrated_count
              + dist.excluded_rating_count + dist.included_in_distribution_count
              = dist.total_associates

C1_Witness ==
    /\ CdDone
    /\ dist.total_associates = 3
    /\ dist.top_level_manager_count = 1
    /\ dist.excluded_rating_count = 1
    /\ dist.included_in_distribution_count = 1

\* C2: a person with no manager reference is counted as ROOT and nowhere
\* else, whatever its rating: the included count, rating_counts,
\* excluded_rating_counts and the bucket counts count persons with a manager
\* only.
C2_RootNeverCounted ==
    CdDone =>
        /\ dist.top_level_manager_count
              = Cardinality({i \in DOMAIN associates : associates[i].manager_id = NoneId})
        /\ dist.included_in_distribution_count + dist.excluded_rating_count
              + dist.unrated_count
              = Cardinality({i \in DOMAIN associates : HasManager(i)})
        /\ \A r \in RatingIds :
              Get(dist.rating_counts, r) + Get(dist.excluded_rating_counts, r)
                  = Cardinality(Holding({i \in DOMAIN associates : HasManager(i)}, r))
        /\ \A br \in BucketResults :
              br.count <= Cardinality({i \in DOMAIN associates :
                              /\ HasManager(i)
                              /\ HasRating(i)
                              /\ BucketOf(associates[i].performance_rating_id)
                                    = br.bucket_id})

\* a root holding a non-excluded, bucket-mapped rating and a root holding an
\* exclusion-flagged rating, next to an included person
C2_Witness ==
    /\ CdDone
    /\ \E i, j \in Roots :
          /\ HasRating(i) /\ ~RatingIsExcluded(i)
          /\ BucketOf(associates[i].performance_rating_id) # NoneId
          /\ HasRating(j) /\ RatingIsExcluded(j)
    /\ dist.included_in_distribution_count = 1

\* C3: rating counts are taken over INCLUDED persons only and sum to the
\* included count; with included count > 0 each percentage is
\* count / included count * 100 and the percentages sum to 100; with
\* included count 0 the percentage map is empty.
C3_RatingDistribution ==
    CdDone =>
        LET n == dist.included_in_distribution_count
            counts == dist.rating_counts
            pcts == dist.rating_percentages
        IN /\ DOMAIN counts = {r \in RatingIds : Holding(Included, r) # {}}
           /\ \A r \in DOMAIN counts : counts[r] = Cardinality(Holding(Included, r))
           /\ SumValues(counts, DOMAIN counts) = n
           /\ n > 0 =>
                 /\ DOMAIN pcts = DOMAIN counts
                 /\ \A r \in DOMAIN pcts :
                       pcts[r].den > 0 /\ pcts[r].num * n = counts[r] * 100 * pcts[r].den
                 /\ PctEquals(SumPct(pcts, DOMAIN pcts), 100)
           /\ n = 0 => DOMAIN pcts = {}

\* two ratings held by included persons, 2 : 1, beside a root that holds one
C3_Witness ==
    /\ CdDone
    /\ dist.included_in_distribution_count = 2
    /\ Cardinality(DOMAIN dist.rating_percentages) = 2
    /\ \E i \in Roots : HasRating(i)

\* C7: every bucket result has exactly one of is_below_minimum,
\* is_above_maximum, is_within_target true.
C7_ExactlyOneStatus ==
    CdDone =>
        \A br \in BucketResults :
            B2N(br.is_below_minimum) + B2N(br.is_above_maximum)
                + B2N(br.is_within_target) = 1

\* two buckets, one below its minimum and one above its maximum
C7_Witness ==
    /\ CdDone
    /\ \E x, y \in BucketResults :
          /\ x.is_below_minimum /\ ~x.is_above_maximum /\ ~x.is_within_target
          /\ y.is_above_maximum /\ ~y.is_below_minimum /\ ~y.is_within_target

\* C8: below-minimum exactly when the bucket's percentage is strictly less
\* than min, above-maximum exactly when strictly greater than max,
\* within-target otherwise; a percentage equal to min or to max is
\* within-target.  The percentage is 100 * members / included (0 when no
\* person is included), members being the included persons whose rating
\* maps to the bucket.
C8_StatusByStrictComparison ==
    CdDone =>
        \A br \in BucketResults :
            LET n == Cardinality(Included)
                c == Cardinality({i \in Included :
                        BucketOf(associates[i].performance_rating_id) = br.bucket_id})
                lo == buckets[br.bucket_id].min_percentage
                hi == buckets[br.bucket_id].max_percentage
                below == IF n > 0 THEN 100 * c < lo * n ELSE 0 < lo
                above == IF n > 0 THEN 100 * c > hi * n ELSE 0 > hi
            IN /\ br.percentage.den > 0
               /\ br.percentage.num * (IF n > 0 THEN n ELSE 1)
                     = (IF n > 0 THEN 100 * c ELSE 0) * br.percentage.den
               /\ br.is_below_minimum <=> below
               /\ br.is_above_maximum <=> above
               /\ br.is_within_target <=> (~below /\ ~above)

\* one bucket exactly at its minimum (50 of 50..100), one exactly at its
\* maximum (50 of 0..50)
C8_Witness ==
    /\ CdDone
    /\ \E x, y \in BucketResults :
          /\ x.count = 1 /\ PctEquals(x.percentage, x.min_percentage)
          /\ x.min_percentage = 50 /\ x.is_within_target
          /\ y.count = 1 /\ PctEquals(y.percentage, y.max_percentage)
          /\ y.max_percentage = 50 /\ y.is_within_target

\* C9: an INCLUDED person whose rating has no bucket is counted in
\* rating_counts and rating_percentages, in no bucket's count and in no
\* bucket's breakdown; every rating in a bucket's breakdown maps to that
\* bucket.
C9_UnbucketedRating ==
    CdDone =>
        /\ \A r \in RatingIds :
              (BucketOf(r) = NoneId /\ Holding(Included, r) # {}) =>
                  /\ r \in DOMAIN dist.rating_counts
                  /\ dist.rating_counts[r] = Cardinality(Holding(Included, r))
                  /\ r \in DOMAIN dist.rating_percentages
                  /\ \A br \in BucketResults : r \notin DOMAIN br.rating_breakdown
        /\ \A br \in BucketResults :
              /\ br.count = Cardinality({i \in Included :
                      BucketOf(associates[i].performance_rating_id) = br.bucket_id})
              /\ \A r \in DOMAIN br.rating_breakdown : BucketOf(r) = br.bucket_id

\* an included person with an unbucketed rating beside one in a bucket
C9_Witness ==
    /\ CdDone
    /\ \E r \in RatingIds :
          /\ BucketOf(r) = NoneId
          /\ r \in DOMAIN dist.rating_counts
    /\ \E br \in BucketResults : br.count = 1 /\ DOMAIN br.rating_breakdown # {}

\* ---------------------------------------------------------------- claims: hierarchy level
\* The manager chain of i leads to a person without manager, no person twice
RECURSIVE ReachesRoot(_, _)
ReachesRoot(i, fuel) ==
    IF associates[i].manager_id = NoneId THEN TRUE
    ELSE IF fuel = 0 THEN FALSE
    ELSE ReachesRoot(associates[i].manager_id, fuel - 1)

\* Number of manager hops from i to the root of its chain
RECURSIVE Hops(_)
Hops(i) ==
    IF associates[i].manager_id = NoneId THEN 0
    ELSE 1 + Hops(associates[i].manager_id)

HlDone == hl_pc = "done"

\* C4: a started level computation ends, whatever the manager graph (cycles
\* of any length, chains into a cycle).
C4_WalkTerminates == (hl_pc = "loop") ~> (hl_pc = "done")

\* a walk that ended by the break on a cycle of three persons
C4_Witness ==
    /\ HlDone
    /\ hl_level = 2
    /\ \A i \in DOMAIN associates : associates[i].manager_id # NoneId
    /\ \A i \in DOMAIN associates : associates[i].manager_id # i
    /\ Cardinality(hl_seen) = 2

\* C5: no person is visited twice during the walk, the starting person
\* included.
C5_NoPersonVisitedTwice ==
    \A i, j \in DOMAIN hl_path : i # j => hl_path[i] # hl_path[j]

\* C6: for a person whose chain reaches a root without a cycle the returned
\* level is the number of hops to that root: 0 for a root, level(manager) + 1
\* otherwise.
C6_LevelIsHopsToRoot ==
    (HlDone /\ ReachesRoot(hl_associate, Cardinality(DOMAIN associates))) =>
        /\ hl_level = Hops(hl_associate)
        /\ ~HasManager(hl_associate) => hl_level = 0
        /\ (HasManager(hl_associate) /\ ~HasManager(associates[hl_associate].manager_id))
              => hl_level = 1

\* the walk from the bottom of a chain of three
C6_Witness ==
    /\ HlDone
    /\ ReachesRoot(hl_associate, Cardinality(DOMAIN associates))
    /\ hl_level = 2

\* ---------------------------------------------------------------- claims: manager report
MdDone == md_pc = "done"
Details == {report.manager_details[i] : i \in DOMAIN report.manager_details}
Range(seq) == {seq[i] : i \in DOMAIN seq}

\* The INCLUDED direct reports of manager m, stated on the store
IncludedReportsOf(m) ==
    {i \in DOMAIN associates :
        /\ associates[i].manager_id = m
        /\ HasRating(i)
        /\ ~RatingIsExcluded(i)}

InBucketOf(S, b) == {i \in S : BucketOf(associates[i].performance_rating_id) = b}

\* C10: buckets_out_of_range of a manager names a bucket if and only if the
\* manager has at least one INCLUDED direct report in the bucket and the
\* manager's percentage for it is below the bucket's min or above its max; a
\* bucket with no member is never flagged.
C10_OutOfRangeOnlyWithMembers ==
    MdDone =>
        \A d \in Details : \A b \in DOMAIN buckets :
            LET n == Cardinality(IncludedReportsOf(d.manager_id))
                c == Cardinality(InBucketOf(IncludedReportsOf(d.manager_id), b))
                outside == \/ 100 * c < buckets[b].min_percentage * n
                           \/ 100 * c > buckets[b].max_percentage * n
            IN /\ (b \in Range(d.buckets_out_of_range)) <=> (c > 0 /\ outside)
               /\ c = 0 => b \notin Range(d.buckets_out_of_range)

\* a manager with an included report, none in the bucket, whose percentage 0
\* is below the bucket's minimum: not flagged
C10_Witness ==
    /\ MdDone
    /\ \E d \in Details : \E b \in DOMAIN buckets :
          /\ d.included_reports > 0
          /\ Get(d.bucket_counts, b) = 0
          /\ PctLess(d.bucket_percentages[b], buckets[b].min_percentage)
          /\ d.buckets_out_of_range = <<>>

\* C11: for every people manager the rating counts are taken over the
\* manager's own INCLUDED direct reports, sum to the manager's
\* included_reports, and each rating percentage is count / that manager's
\* included_reports * 100.
C11_ManagerRatingDistribution ==
    MdDone =>
        /\ {d.manager_id : d \in Details}
              = {i \in DOMAIN associates : associates[i].is_people_manager}
        /\ \A d \in Details :
              LET own == IncludedReportsOf(d.manager_id)
                  n == d.included_reports
                  counts == d.rating_counts
                  pcts == d.rating_percentages
              IN /\ n = Cardinality(own)
                 /\ DOMAIN counts = {r \in RatingIds : Holding(own, r) # {}}
                 /\ \A r \in DOMAIN counts : counts[r] = Cardinality(Holding(own, r))
                 /\ SumValues(counts, DOMAIN counts) = n
                 /\ n > 0 =>
                       /\ DOMAIN pcts = DOMAIN counts
                       /\ \A r \in DOMAIN pcts :
                             /\ pcts[r].den > 0
                             /\ pcts[r].num * n = counts[r] * 100 * pcts[r].den
                 /\ n = 0 => DOMAIN pcts = {}

\* two managers with one included report each, of different ratings: each
\* manager's percentage is 100, where the organization-wide denominator 2
\* would give 50
C11_Witness ==
    /\ MdDone
    /\ Cardinality(Included) = 2
    /\ \E x, y \in Details :
          /\ x.manager_id # y.manager_id
          /\ x.included_reports = 1 /\ y.included_reports = 1
          /\ DOMAIN x.rating_counts # DOMAIN y.rating_counts
          /\ \A r \in DOMAIN x.rating_percentages :
                PctEquals(x.rating_percentages[r], 100)

\* The positions in manager_details of the managers at one hierarchy level
DetailsAtLevel(level) ==
    {i \in DOMAIN report.manager_details :
        report.manager_details[i].hierarchy_level = level}

\* Sum over the managers at `level` of the count their detail's dict `field`
\* holds for key k (0 where the dict has no such key)
SumAtLevel(level, field, k) ==
    SumValues([i \in DetailsAtLevel(level) |->
                  Get(report.manager_details[i][field], k)],
              DetailsAtLevel(level))

IncludedAtLevel(level) ==
    SumValues([i \in DetailsAtLevel(level) |->
                  report.manager_details[i].included_reports],
              DetailsAtLevel(level))

\* C12: there is one summary per hierarchy level that has a manager; its
\* total_included_reports, rating counts and bucket counts are the sums of
\* the managers' values at that level; with a summed included count > 0
\* every aggregate percentage is summed count / summed included * 100, and
\* with a summed included count of 0 there are no percentages.
C12_LevelSummaryIsSum ==
    MdDone =>
        LET summaries == report.hierarchy_summaries
        IN /\ DOMAIN summaries = {d.hierarchy_level : d \in Details}
           /\ \A level \in DOMAIN summaries :
                 LET s == summaries[level]
                     total == IncludedAtLevel(level)
                 IN /\ s.manager_count = Cardinality(DetailsAtLevel(level))
                    /\ s.total_included_reports = total
                    /\ DOMAIN s.rating_counts \subseteq RatingIds
                    /\ \A r \in RatingIds :
                          Get(s.rating_counts, r) = SumAtLevel(level, "rating_counts", r)
                    /\ DOMAIN s.bucket_counts \subseteq DOMAIN buckets
                    /\ \A b \in DOMAIN buckets :
                          Get(s.bucket_counts, b) = SumAtLevel(level, "bucket_counts", b)
                    /\ total > 0 =>
                          /\ DOMAIN s.rating_percentages = DOMAIN s.rating_counts
                          /\ \A r \in DOMAIN s.rating_percentages :
                                /\ s.rating_percentages[r].den > 0
                                /\ s.rating_percentages[r].num * total
                                      = s.rating_counts[r] * 100 * s.rating_percentages[r].den
                          /\ DOMAIN s.bucket_percentages = DOMAIN s.bucket_counts
                          /\ \A b \in DOMAIN s.bucket_percentages :
                                /\ s.bucket_percentages[b].den > 0
                                /\ s.bucket_percentages[b].num * total
                                      = s.bucket_counts[b] * 100 * s.bucket_percentages[b].den
                    /\ total = 0 =>
                          /\ DOMAIN s.rating_percentages = {}
                          /\ DOMAIN s.bucket_percentages = {}

\* two managers at one level with teams of unequal size: 100 % of one
\* included report and 50 % of two hold a rating; the level's percentage is
\* 2 of 3, not the average 75
C12_Witness ==
    /\ MdDone
    /\ \E x, y \in Details : \E r \in RatingIds :
          /\ x.manager_id # y.manager_id
          /\ x.hierarchy_level = y.hierarchy_level
          /\ x.included_reports = 1 /\ y.included_reports = 2
          /\ r \in DOMAIN x.rating_percentages
          /\ r \in DOMAIN y.rating_percentages
          /\ PctEquals(x.rating_percentages[r], 100)
          /\ PctEquals(y.rating_percentages[r], 50)
          /\ LET s == report.hierarchy_summaries[x.hierarchy_level]
             IN /\ s.manager_count = 2
                /\ s.rating_counts[r] = 2
                /\ s.rating_percentages[r].num * 3 = 200 * s.rating_percentages[r].den
                /\ ~PctEquals(s.rating_percentages[r], 75)
                /\ DOMAIN s.bucket_percentages # {}

\* The direct reports of manager m, stated on the store, and their classes
ReportsOf(m) == {i \in DOMAIN associates : associates[i].manager_id = m}
UnratedReportsOf(m) == {i \in ReportsOf(m) : ~HasRating(i)}
ExcludedReportsOf(m) == {i \in ReportsOf(m) : HasRating(i) /\ RatingIsExcluded(i)}

\* C13: a manager's direct reports are partitioned into unrated (no rating),
\* excluded (rating exclusion-flagged) and included (otherwise); the three
\* counts of the detail are the sizes of these classes and sum to
\* total_direct_reports.
C13_ReportsPartition ==
    MdDone =>
        \A d \in Details :
            LET m == d.manager_id
            IN /\ \A i \in ReportsOf(m) :
                     B2N(i \in UnratedReportsOf(m)) + B2N(i \in ExcludedReportsOf(m))
                         + B2N(i \in IncludedReportsOf(m)) = 1
               /\ d.total_direct_reports = Cardinality(ReportsOf(m))
               /\ d.unrated_reports = Cardinality(UnratedReportsOf(m))
               /\ d.excluded_reports = Cardinality(ExcludedReportsOf(m))
               /\ d.included_reports = Cardinality(IncludedReportsOf(m))
               /\ d.unrated_reports + d.excluded_reports + d.included_reports
                     = d.total_direct_reports

\* a manager with one direct report in each class
C13_Witness ==
    /\ MdDone
    /\ \E d \in Details :
          /\ d.total_direct_reports = 3
          /\ d.unrated_reports = 1
          /\ d.excluded_reports = 1
          /\ d.included_reports = 1

\* C14: a manager's rated_reports is the number of the manager's direct
\* reports that have a rating assigned, excluded or not:
\* rated_reports + unrated_reports = total_direct_reports and
\* rated_reports = excluded_reports + included_reports.
C14_RatedReportsHaveRating ==
    MdDone =>
        \A d \in Details :
            /\ d.rated_reports
                  = Cardinality({i \in ReportsOf(d.manager_id) : HasRating(i)})
            /\ d.rated_reports + d.unrated_reports = d.total_direct_reports
            /\ d.rated_reports = d.excluded_reports + d.included_reports

\* The INCLUDED direct reports of manager m as loaded rows, in id order
IncludedRowsOf(m) ==
    [k \in 1 .. Cardinality(IncludedReportsOf(m)) |->
        LoadAssociate(Ascending(IncludedReportsOf(m))[k])]

\* C15: for every manager and every configured bucket the per-manager bucket
\* count and bucket percentage equal the count and the percentage of the
\* BucketDistribution that calculate_bucket_distributions produces for the
\* manager's INCLUDED direct reports, a bucket without member and a manager
\* without included report included (count 0, percentage 0.0).  A count the
\* dict does not hold reads as 0, as the code itself reads it.
C15_ManagerBucketsAsOrganizationWide ==
    MdDone =>
        \A d \in Details : \A b \in DOMAIN buckets :
            LET own == IncludedRowsOf(d.manager_id)
                org == BucketDistribution(LoadBucket(b), own, Len(own))
            IN /\ Get(d.bucket_counts, b) = org.count
               /\ b \in DOMAIN d.bucket_percentages
               /\ d.bucket_percentages[b].num * org.percentage.den
                     = org.percentage.num * d.bucket_percentages[b].den

\* ---------------------------------------------------------------- claims: validator
ValDone == val_pc = "done"

\* The sums of the buckets' minimums and maximums, stated on the store
SumOfMinimums ==
    SumValues([b \in DOMAIN buckets |-> buckets[b].min_percentage], DOMAIN buckets)
SumOfMaximums ==
    SumValues([b \in DOMAIN buckets |-> buckets[b].max_percentage], DOMAIN buckets)

\* The positions of the messages of one kind in a list of the result
ErrorsOfKind(kind) ==
    {i \in DOMAIN validation.errors : validation.errors[i].kind = kind}
WarningsOfKind(kind) ==
    {i \in DOMAIN validation.warnings : validation.warnings[i].kind = kind}

\* C16: when every bucket has min <= max and the minimums sum to more than
\* 100, the validator returns exactly one error, the minimum-sum error, and
\* no rigidity warning.
C16_MinimumSumOver100 ==
    (/\ ValDone
     /\ \A b \in DOMAIN buckets : buckets[b].min_percentage <= buckets[b].max_percentage
     /\ SumOfMinimums > 100) =>
        /\ Len(validation.errors) = 1
        /\ validation.errors[1].kind = "minimum_sum"
        /\ WarningsOfKind("rigid") = {}

\* the minimums sum to 110 (60 + 50)
C16_Witness ==
    /\ ValDone
    /\ SumOfMinimums = 110
    /\ Len(validation.errors) = 1
    /\ validation.errors[1].total = 110

\* C17 as stated: for every set of configured buckets, of any size, a sum of
\* the maximums below 100 puts a maximum-sum error in the error list.
C17_MaximumSumBelow100AnySize ==
    (ValDone /\ SumOfMaximums < 100) => ErrorsOfKind("maximum_sum") # {}

\* C17 amended: the validator returns exactly one maximum-sum error when at
\* least one bucket is configured and the maximums sum to less than 100, and
\* none otherwise; with no bucket configured the error list is empty.
C17_MaximumSumBelow100 ==
    ValDone =>
        /\ (DOMAIN buckets # {} /\ SumOfMaximums < 100)
              => Cardinality(ErrorsOfKind("maximum_sum")) = 1
        /\ ~(DOMAIN buckets # {} /\ SumOfMaximums < 100)
              => ErrorsOfKind("maximum_sum") = {}
        /\ DOMAIN buckets = {} => validation.errors = <<>>

\* two buckets whose maximums sum to 90 (40 + 50)
C17_Witness ==
    /\ ValDone
    /\ Cardinality(DOMAIN buckets) = 2
    /\ SumOfMaximums = 90
    /\ \E i \in ErrorsOfKind("maximum_sum") : validation.errors[i].total = 90

\* C18: the rigidity warning is emitted if and only if the minimums and the
\* maximums both sum to exactly 100; when it is emitted the error list is
\* empty.
C18_RigidityWarning ==
    ValDone =>
        /\ (WarningsOfKind("rigid") # {})
              <=> (SumOfMinimums = 100 /\ SumOfMaximums = 100)
        /\ Cardinality(WarningsOfKind("rigid")) <= 1
        /\ WarningsOfKind("rigid") # {} => validation.errors = <<>>

\* two buckets of exactly 50 each: the warning beside a coverage warning
C18_Witness ==
    /\ ValDone
    /\ Cardinality(DOMAIN buckets) = 2
    /\ SumOfMinimums = 100 /\ SumOfMaximums = 100
    /\ WarningsOfKind("rigid") # {}
    /\ WarningsOfKind("unassigned") # {}
    /\ validation.errors = <<>>

\* The ratings that are neither exclusion-flagged nor mapped to a bucket
Uncovered ==
    {r \in RatingIds :
        /\ ~ratings[r].excluded_from_distribution
        /\ BucketOf(r) = NoneId}

\* C19: the validator emits exactly one coverage warning when some rating is
\* neither exclusion-flagged nor mapped to a bucket, and none otherwise; the
\* warning names each such rating once, by description, and no other
\* rating.  Which ratings are named is determined by the ratings table
\* alone, whoever holds them.
C19_CoverageWarning ==
    ValDone =>
        /\ Uncovered # {} =>
              /\ Cardinality(WarningsOfKind("unassigned")) = 1
              /\ \A i \in WarningsOfKind("unassigned") :
                    LET names == validation.warnings[i].rating_names
                    IN /\ Range(names) = Uncovered
                       /\ Len(names) = Cardinality(Uncovered)
        /\ Uncovered = {} => WarningsOfKind("unassigned") = {}

\* the warning names a rating that no person holds and leaves out the
\* unmapped, exclusion-flagged rating that the one person holds
C19_Witness ==
    /\ ValDone
    /\ \E r, x \in RatingIds :
          /\ r \in Uncovered
          /\ Holding(DOMAIN associates, r) = {}
          /\ ratings[x].excluded_from_distribution /\ BucketOf(x) = NoneId
          /\ Holding(DOMAIN associates, x) # {}
          /\ \E i \in WarningsOfKind("unassigned") :
                validation.warnings[i].rating_names = <<r>>

\* ---------------------------------------------------------------- claims: concurrent editors
\* C20: the result calculate_comprehensive_distribution returns equals the
\* result computed over one single state the store has been in during the
\* call, whatever editors commit to persons, manager references, ratings or
\* buckets while the call runs.
C20_ResultOverOneStoreState ==
    CdDone => \E k \in DOMAIN Recorded : dist \in Recorded[k]

\* ---------------------------------------------------------------- claims: degenerate inputs
\* C21: with zero persons the five counts are 0, the rating count and
\* percentage maps are empty and there is one result per configured bucket
\* with count 0, percentage 0.0 and an empty breakdown; with zero buckets the
\* bucket list is empty; with no INCLUDED person whose rating maps to a
\* bucket every breakdown is empty; no percentage has a zero denominator.
C21_DegenerateInputs ==
    CdDone =>
        /\ DOMAIN associates = {} =>
              /\ dist.total_associates = 0
              /\ dist.top_level_manager_count = 0
              /\ dist.excluded_rating_count = 0
              /\ dist.included_in_distribution_count = 0
              /\ dist.unrated_count = 0
              /\ DOMAIN dist.rating_counts = {}
              /\ DOMAIN dist.rating_percentages = {}
              /\ Len(dist.bucket_distributions) = Cardinality(DOMAIN buckets)
              /\ {br.bucket_id : br \in BucketResults} = DOMAIN buckets
              /\ \A br \in BucketResults :
                    /\ br.count = 0
                    /\ br.percentage = ZeroPct
                    /\ DOMAIN br.rating_breakdown = {}
        /\ DOMAIN buckets = {} => dist.bucket_distributions = <<>>
        /\ (\A i \in Included :
               BucketOf(associates[i].performance_rating_id) \notin DOMAIN buckets) =>
              \A br \in BucketResults : DOMAIN br.rating_breakdown = {}
        /\ \A br \in BucketResults : br.percentage.den > 0
        /\ \A r \in DOMAIN dist.rating_percentages : dist.rating_percentages[r].den > 0

\* zero persons and two configured buckets, a rating mapped to one of them
C21_Witness ==
    /\ CdDone
    /\ DOMAIN associates = {}
    /\ Len(dist.bucket_distributions) = 2
    /\ \E r \in RatingIds : BucketOf(r) # NoneId

\* C22: the result holds exactly one bucket result per configured bucket,
\* buckets without member included, in ascending order of sort_order.
C22_OneResultPerBucketInSortOrder ==
    CdDone =>
        LET results == dist.bucket_distributions
        IN /\ Len(results) = Cardinality(DOMAIN buckets)
           /\ \A b \in DOMAIN buckets :
                 Cardinality({i \in DOMAIN results : results[i].bucket_id = b}) = 1
           /\ \A i \in DOMAIN results :
                 results[i].sort_order = buckets[results[i].bucket_id].sort_order
           /\ \A i, j \in DOMAIN results :
                 i < j => results[i].sort_order <= results[j].sort_order

\* bucket 2 sorts before bucket 1 and comes first; one of the two has no
\* member
C22_Witness ==
    /\ CdDone
    /\ Len(dist.bucket_distributions) = 2
    /\ dist.bucket_distributions[1].bucket_id = 2
    /\ dist.bucket_distributions[1].sort_order < dist.bucket_distributions[2].sort_order
    /\ \E br \in BucketResults : br.count = 0
    /\ \E br \in BucketResults : br.count > 0

\* ---------------------------------------------------------------- claims: rating percentages of the module
RpDone == rp_pc = "done"

\* C23: every rating percentage of the module is taken over the INCLUDED
\* persons only: the result of calculate_rating_distribution_percentages (as
\* that of calculate_comprehensive_distribution) has, for each rating, the
\* share of the INCLUDED persons who hold it, no entry counts a root or the
\* holder of an exclusion-flagged rating, and the mapping is empty when no
\* person is INCLUDED.
C23_PercentagesOverIncludedOnly ==
    /\ CdDone =>
          /\ Included = {} => DOMAIN dist.rating_percentages = {}
          /\ \A r \in DOMAIN dist.rating_percentages :
                dist.rating_percentages[r] =
                    Pct(Cardinality(Holding(Included, r)), Cardinality(Included))
    /\ RpDone =>
          LET percentages == rating_distribution.percentages
          IN /\ Included = {} => DOMAIN percentages = {}
             /\ \A r \in DOMAIN percentages :
                   /\ Holding(Included, r) # {}
                   /\ percentages[r].num * Cardinality(Included) =
                          100 * Cardinality(Holding(Included, r)) * percentages[r].den

\* ---------------------------------------------------------------- claims: read-only functions
\* C24: calculate_comprehensive_distribution, calculate_manager_distributions,
\* calculate_hierarchy_level and validate_bucket_configuration change no
\* Person, Rating or Bucket record: no step of any of them changes one of the
\* three tables, so the store after a call is the store before it.
C24_StoreUnchanged == [][storeVars' = storeVars]_vars

\* All four functions have returned, over a store with associates, a
\* circular manager chain the hierarchy walk ran into, and a bucket
C24_Witness ==
    /\ CdDone /\ MdDone /\ HlDone /\ ValDone
    /\ DOMAIN buckets # {}
    /\ hl_associate \in DOMAIN associates
    /\ ~ReachesRoot(hl_associate, MaxAssociates)

\* ---------------------------------------------------------------- claims: CSV import
ImpDone == imp_pc = "done"

\* Row names associate i of the store before the call (first and last name
\* compared case-insensitively)
NamedByRow(i, row) == Lower(row.name) = Lower(import_call.before[i].name)

\* C25: with update_existing = False every associate that was in the store
\* before the call keeps all its fields (level, manager reference,
\* people-manager flag), and when a row with a known level names such an
\* associate the row is counted in skipped_count.
C25_ExistingAssociatesUntouched ==
    (ImpDone /\ ~import_call.update_existing) =>
        \A i \in DOMAIN import_call.before :
            /\ associates[i] = import_call.before[i]
            /\ (\E row \in Range(import_call.rows) :
                    NamedByRow(i, row) /\ row.level \in LevelIds)
                   => import_result.skipped_count > 0

\* C26: after a successful import every associate the import made the
\* manager of someone is flagged as people manager, whatever its own row said.
C26_AssignedManagersAreFlagged ==
    (ImpDone /\ import_result.success) =>
        \A pair \in import_call.assigned : associates[pair[2]].is_people_manager

\* A successful import created a manager whose own row says
\* is_people_manager = false and gave that manager a direct report
C26_Witness ==
    /\ ImpDone
    /\ import_result.success
    /\ \E pair \in import_call.assigned, row \in Range(import_call.rows) :
          /\ pair[1] # pair[2]
          /\ pair[2] \notin DOMAIN import_call.before
          /\ import_call.associate_map[Lower(row.name)] = pair[2]
          /\ ~row.is_people_manager
          /\ associates[pair[2]].is_people_manager

\* C27: when the import returns success = false the associates table is the
\* table before the call: nothing was created, nothing was modified.
C27_FailedImportChangesNothing ==
    (ImpDone /\ ~import_result.success) => associates = import_call.before

\* The commit raised after the import had created an associate and assigned
\* a manager to an associate that existed before
C27_Witness ==
    /\ ImpDone
    /\ ~import_result.success
    /\ import_result.created_count > 0
    /\ \E pair \in import_call.assigned : pair[1] \in DOMAIN import_call.before
    /\ \E e \in Range(import_result.errors) : e.kind = "database"

\* ---------------------------------------------------------------- claims: managers and levels
Flagged == {i \in DOMAIN associates : associates[i].is_people_manager}

\* C28: every person flagged as people manager has exactly one per-manager
\* detail (and only flagged persons have one) and is counted in exactly one
\* level summary, that of the hierarchy level of its detail: each summary's
\* manager_count is the number of managers at its level, the manager_count
\* values sum to total_managers, and a level has a summary only if a manager
\* is at that level.
C28_ManagersInOneDetailAndOneLevel ==
    MdDone =>
        LET details == report.manager_details
            summaries == report.hierarchy_summaries
        IN /\ \A m \in Flagged :
                 Cardinality({i \in DOMAIN details : details[i].manager_id = m}) = 1
           /\ \A d \in Details : d.manager_id \in Flagged
           /\ report.total_managers = Cardinality(Flagged)
           /\ \A d \in Details : d.hierarchy_level \in DOMAIN summaries
           /\ \A level \in DOMAIN summaries :
                 /\ summaries[level].hierarchy_level = level
                 /\ summaries[level].manager_count
                       = Cardinality({m \in Flagged :
                            \E d \in Details :
                                d.manager_id = m /\ d.hierarchy_level = level})
                 /\ summaries[level].manager_count >= 1
           /\ SumValues([level \in DOMAIN summaries |-> summaries[level].manager_count],
                        DOMAIN summaries) = report.total_managers

\* three managers: one at a level of its own and two sharing a level
C28_Witness ==
    /\ MdDone
    /\ report.total_managers = 3
    /\ Cardinality(DOMAIN report.hierarchy_summaries) = 2
    /\ \E level \in DOMAIN report.hierarchy_summaries :
          report.hierarchy_summaries[level].manager_count = 2

\* C29: the summary of a hierarchy level with exactly one manager has that
\* manager's own values: the same total included reports, rating counts,
\* rating percentages, bucket counts and bucket percentages, with entries
\* for the same ratings and the same buckets.
C29_SingleManagerLevelEqualsManager ==
    MdDone =>
        \A level \in DOMAIN report.hierarchy_summaries :
            Cardinality(DetailsAtLevel(level)) = 1 =>
                LET s == report.hierarchy_summaries[level]
                    d == report.manager_details[CHOOSE i \in DetailsAtLevel(level) : TRUE]
                IN /\ s.total_included_reports = d.included_reports
                   /\ s.rating_counts = d.rating_counts
                   /\ DOMAIN s.rating_percentages = DOMAIN d.rating_percentages
                   /\ \A r \in DOMAIN s.rating_percentages :
                         s.rating_percentages[r].num * d.rating_percentages[r].den
                             = d.rating_percentages[r].num * s.rating_percentages[r].den
                   /\ s.bucket_counts = d.bucket_counts
                   /\ DOMAIN s.bucket_percentages = DOMAIN d.bucket_percentages
                   /\ \A b \in DOMAIN s.bucket_percentages :
                         s.bucket_percentages[b].num * d.bucket_percentages[b].den
                             = d.bucket_percentages[b].num * s.bucket_percentages[b].den

\* ---------------------------------------------------------------- claims: bucket counts
\* C30: each INCLUDED person is counted in at most one bucket: the bucket
\* counts sum to the number of INCLUDED persons whose rating references a
\* configured bucket, so never to more than the included count, and each
\* bucket's rating breakdown sums to the bucket's count.
C30_EachIncludedInAtMostOneBucket ==
    CdDone =>
        LET results == dist.bucket_distributions
            bucketed == {i \in Included :
                            BucketOf(associates[i].performance_rating_id) \in DOMAIN buckets}
            total == SumValues([i \in DOMAIN results |-> results[i].count],
                               DOMAIN results)
        IN /\ total = Cardinality(bucketed)
           /\ total <= dist.included_in_distribution_count
           /\ dist.included_in_distribution_count = Cardinality(Included)
           /\ \A br \in BucketResults :
                 SumValues(br.rating_breakdown, DOMAIN br.rating_breakdown) = br.count

\* three INCLUDED persons: two hold one rating and share a bucket, the third
\* holds a rating without bucket, and a second bucket has no member
C30_Witness ==
    /\ CdDone
    /\ dist.included_in_distribution_count = 3
    /\ Len(dist.bucket_distributions) = 2
    /\ \E br \in BucketResults, r \in RatingIds :
          /\ br.count = 2
          /\ DOMAIN br.rating_breakdown = {r}
          /\ br.rating_breakdown[r] = 2
    /\ \E br \in BucketResults : br.count = 0

====
